---- MODULE Spec2Model ----
(***************************************************************************)
(* Model of dat_avatar_gui_v1.3.py: the byte codec, the two record         *)
(* layouts, size detection, DATModel (load / _parse / save / the two SQL   *)
(* exports) and the three editing handlers of App (cell edit, batch edit,  *)
(* image-number change).                                                   *)
(*                                                                         *)
(* Representation.  A byte buffer is a sequence of 0..255; Python offset o *)
(* is position o+1.  A Python str is a sequence of code points.  A Python  *)
(* int v is the pair (hi, lo) with v = hi * 65536 + lo, 0 <= lo < 65536,   *)
(* so that 32-bit field values and the out-of-range values an edit can     *)
(* store are both exact.  A value held in a record's dict is tagged:       *)
(* IntV, StrV or None.                                                     *)
(***************************************************************************)
EXTENDS Integers, Sequences, FiniteSets, TLC

VARIABLES
    disk,       \* the file system: path -> bytes of the file, or NoFile
    path,       \* DATModel.path
    data,       \* DATModel.data, the bytearray
    records,    \* DATModel.records, a sequence of Record
    outcome,    \* what the last handler did and how it ended
    snap,       \* history: records as parsed by the last load
    log,        \* history: the edits accepted since the last load
    nEdits,     \* history: number of edits attempted in this run
    clean,      \* history: paths written by save from the present records
    report,     \* the rows of the last SQL export
    total,      \* size detection alone: the length given
    size        \* size detection alone: the record size returned

vars == <<disk, path, data, records, outcome, snap, log, nEdits, clean,
          report, total, size>>

----------------------------------------------------------------------------
(* Bounds of the model *)

MaxRecords == 1
MaxEdits == 1
MaxTotal == 1400

----------------------------------------------------------------------------
(* Values *)

None == [t |-> "none"]
IntV(h, l) == [t |-> "int", hi |-> h, lo |-> l]
StrV(str) == [t |-> "str", s |-> str]

Half == 256 * 256

\* A small non-negative integer as a Python int.
Small(n) == IntV(n \div Half, n % Half)

Zero == Small(0)
One == Small(1)

Min(a, b) == IF a < b THEN a ELSE b
Max(a, b) == IF a > b THEN a ELSE b

Rep(c, n) == [i \in 1..n |-> c]

----------------------------------------------------------------------------
(* Helpers for endianness and bytes *)

\* struct.unpack_from("<I", b, off)
read_u32_le(b, off) ==
    IntV(b[off + 3] + 256 * b[off + 4], b[off + 1] + 256 * b[off + 2])

\* The four bytes read without their sign.
read_i32_unsigned(b, off) ==
    IntV(b[off + 3] + 256 * b[off + 4], b[off + 1] + 256 * b[off + 2])

\* struct.unpack_from("<i", b, off): two's complement
read_i32_le(b, off) ==
    LET uh == b[off + 3] + 256 * b[off + 4]
    IN  IntV(IF uh >= 32768 THEN uh - Half ELSE uh, b[off + 1] + 256 * b[off + 2])

read_u8(b, off) == Small(b[off + 1])

\* "<I" accepts 0 .. 2^32 - 1 and needs 4 bytes of buffer at off.
CanPackU32(b, off, v) ==
    /\ v.t = "int"
    /\ v.hi >= 0 /\ v.hi < Half
    /\ off + 4 <= Len(b)

\* "<i" accepts -2^31 .. 2^31 - 1 and needs 4 bytes of buffer at off.
CanPackI32(b, off, v) ==
    /\ v.t = "int"
    /\ v.hi >= -32768 /\ v.hi < 32768
    /\ off + 4 <= Len(b)

Put(b, off, bytes) ==
    SubSeq(b, 1, off) \o bytes \o SubSeq(b, off + Len(bytes) + 1, Len(b))

LE32(v) ==
    LET h == v.hi % Half
    IN  <<v.lo % 256, v.lo \div 256, h % 256, h \div 256>>

write_u32_le(barr, off, val) == Put(barr, off, LE32(val))

write_i32_le(barr, off, val) == Put(barr, off, LE32(val))

\* barr[off] = int(val) & 0xFF
write_u8(barr, off, val) == Put(barr, off, <<val.lo % 256>>)

----------------------------------------------------------------------------
(* UTF-8 and Latin-1 *)

IsCont(x) == x >= 128 /\ x < 192

\* str.encode("utf-8", errors="ignore") of one code point: a lone surrogate
\* cannot be encoded and is dropped.
EncodeCp(c) ==
    IF c < 128 THEN <<c>>
    ELSE IF c < 2048 THEN <<192 + (c \div 64), 128 + (c % 64)>>
    ELSE IF c >= 55296 /\ c < 57344 THEN <<>>
    ELSE IF c < 65536
         THEN <<224 + (c \div 4096), 128 + ((c \div 64) % 64), 128 + (c % 64)>>
    ELSE <<240 + (c \div 262144), 128 + ((c \div 4096) % 64),
           128 + ((c \div 64) % 64), 128 + (c % 64)>>

\* The encodings of the code points, concatenated (by halves, to keep the
\* evaluation shallow).
RECURSIVE EncodeUtf8(_)
EncodeUtf8(str) ==
    IF str = <<>> THEN <<>>
    ELSE IF Len(str) = 1 THEN EncodeCp(str[1])
    ELSE LET h == Len(str) \div 2
         IN  EncodeUtf8(SubSeq(str, 1, h)) \o EncodeUtf8(SubSeq(str, h + 1, Len(str)))

\* Number of bytes of the well-formed UTF-8 sequence that starts at s[i],
\* 0 when there is none (bad lead byte, bad or missing continuation, overlong
\* form, surrogate, beyond U+10FFFF).
SeqLenAt(s, i) ==
    LET n == Len(s)
        b0 == s[i]
        c(k) == i + k <= n /\ IsCont(s[i + k])
    IN  IF b0 < 128 THEN 1
        ELSE IF b0 >= 194 /\ b0 < 224 THEN (IF c(1) THEN 2 ELSE 0)
        ELSE IF b0 >= 224 /\ b0 < 240
             THEN IF /\ c(1) /\ c(2)
                     /\ (b0 = 224 => s[i + 1] >= 160)
                     /\ (b0 = 237 => s[i + 1] < 160)
                  THEN 3 ELSE 0
        ELSE IF b0 >= 240 /\ b0 < 245
             THEN IF /\ c(1) /\ c(2) /\ c(3)
                     /\ (b0 = 240 => s[i + 1] >= 144)
                     /\ (b0 = 244 => s[i + 1] < 144)
                  THEN 4 ELSE 0
        ELSE 0

CpAt(s, i, k) ==
    IF k = 1 THEN s[i]
    ELSE IF k = 2 THEN (s[i] - 192) * 64 + (s[i + 1] - 128)
    ELSE IF k = 3
         THEN (s[i] - 224) * 4096 + (s[i + 1] - 128) * 64 + (s[i + 2] - 128)
    ELSE (s[i] - 240) * 262144 + (s[i + 1] - 128) * 4096
         + (s[i + 2] - 128) * 64 + (s[i + 3] - 128)

\* The strict decoder accepts s when it can be cut into well-formed
\* sequences from the first byte on: every byte that is no continuation byte
\* starts one, and every continuation byte lies inside the one that the
\* nearest such byte before it starts.
Utf8Ok(s) ==
    \A i \in 1..Len(s) :
        IF IsCont(s[i])
        THEN \E j \in 1..3 :
                /\ i - j >= 1
                /\ ~IsCont(s[i - j])
                /\ \A m \in 1..(j - 1) : IsCont(s[i - m])
                /\ SeqLenAt(s, i - j) > j
        ELSE SeqLenAt(s, i) > 0

\* The code points of the well-formed s[lo..hi] (by halves, cut at the start
\* of a sequence).
RECURSIVE DecodeUtf8(_, _, _)
DecodeUtf8(s, lo, hi) ==
    IF lo > hi THEN <<>>
    ELSE LET k == SeqLenAt(s, lo)
             mid0 == (lo + hi + 1) \div 2
             mid == CHOOSE m \in mid0..(hi + 1) :
                       /\ m > hi \/ ~IsCont(s[m])
                       /\ \A x \in mid0..(m - 1) : IsCont(s[x])
         IN  IF lo + k > hi THEN <<CpAt(s, lo, k)>>
             ELSE IF mid > lo /\ mid <= hi
                  THEN DecodeUtf8(s, lo, mid - 1) \o DecodeUtf8(s, mid, hi)
                  ELSE <<CpAt(s, lo, k)>> \o DecodeUtf8(s, lo + k, hi)

\* bytes.split(b'\x00', 1)[0]
UpToNul(s) ==
    LET z == {i \in 1..Len(s) : s[i] = 0}
    IN  IF z = {} THEN s
        ELSE SubSeq(s, 1, (CHOOSE i \in z : \A j \in z : i <= j) - 1)

\* The slice b[off:off+length] stops at the end of the buffer.  Latin-1 maps
\* every byte to the code point of the same number and so never fails: the
\* hexadecimal fallback of the source is dead.
read_str(b, off, length) ==
    LET s == UpToNul(SubSeq(b, off + 1, Min(off + length, Len(b))))
    IN  IF Utf8Ok(s) THEN DecodeUtf8(s, 1, Len(s)) ELSE s

\* The encoded text stored whole, however long it is.
write_str_whole(barr, off, length, text) ==
    LET raw == EncodeUtf8(text)
    IN  SubSeq(barr, 1, off) \o raw \o Rep(0, length - Len(raw))
        \o SubSeq(barr, off + Max(length, Len(raw)) + 1, Len(barr))

\* The slice assignment replaces b[off:off+length] (cut at the end of the
\* buffer) by exactly length bytes.
write_str(barr, off, length, text) ==
    LET enc == EncodeUtf8(text)
        raw == SubSeq(enc, 1, Min(length, Len(enc)))
    IN  SubSeq(barr, 1, off) \o raw \o Rep(0, length - Len(raw))
        \o SubSeq(barr, off + length + 1, Len(barr))

----------------------------------------------------------------------------
(* Record maps *)

NORMAL_SIZE == 644
EXITEM_SIZE == 684
HEADER == 4
NAME_LEN == 19
DESC_LEN == 63

F(k, o, t, L) == [k |-> k, o |-> o, t |-> t, L |-> L]

\* The dict NORMAL_MAP in its insertion order, which is the order save
\* iterates in.
NORMAL_MAP == <<
    F("avatar_code", 0, "u32", 0),
    F("image_number", 4, "u32", 0),
    F("name", 12, "str", NAME_LEN),
    F("show_in_shop", 35, "u8", 0),
    F("sell_weekly", 37, "u8", 0),
    F("sell_monthly", 60, "u8", 0),
    F("sell_eternal", 84, "u8", 0),
    F("price_weekly_gold", 40, "u32", 0),
    F("price_weekly_cash", 44, "u32", 0),
    F("price_monthly_gold", 64, "u32", 0),
    F("price_monthly_cash", 68, "u32", 0),
    F("price_eternal_gold", 88, "u32", 0),
    F("price_eternal_cash", 92, "u32", 0),
    F("enable_sale_gold", 96, "u8", 0),
    F("enable_sale_cash", 97, "u8", 0),
    F("description", 132, "str", DESC_LEN),
    F("crater_attack", 104, "i32", 0),
    F("attack", 108, "i32", 0),
    F("defense", 112, "i32", 0),
    F("energy", 116, "i32", 0),
    F("shield_regen", 120, "i32", 0),
    F("item_delay", 124, "i32", 0),
    F("popularity", 128, "i32", 0) >>

EXITEM_MAP == <<
    F("avatar_code", 0, "u32", 0),
    F("ex_number", 8, "u32", 0),
    F("name", 20, "str", NAME_LEN),
    F("show_in_shop", 43, "u8", 0),
    F("sell_weekly", 45, "u8", 0),
    F("sell_monthly", 68, "u8", 0),
    F("sell_eternal", 92, "u8", 0),
    F("price_weekly_gold", 48, "u32", 0),
    F("price_weekly_cash", 52, "u32", 0),
    F("price_monthly_gold", 72, "u32", 0),
    F("price_monthly_cash", 76, "u32", 0),
    F("price_eternal_gold", 96, "u32", 0),
    F("price_eternal_cash", 100, "u32", 0),
    F("enable_sale_gold", 104, "u8", 0),
    F("enable_sale_cash", 105, "u8", 0),
    F("description", 132, "str", DESC_LEN) >>

MapOf(rtype) == IF rtype = "Normal" THEN NORMAL_MAP ELSE EXITEM_MAP

SizeOf(rtype) == IF rtype = "Normal" THEN NORMAL_SIZE ELSE EXITEM_SIZE

Keys(m) == {m[j].k : j \in 1..Len(m)}

Spec_(m, k) == m[CHOOSE j \in 1..Len(m) : m[j].k = k]

\* The seven stat fields the handlers refuse on an Ex-item record.
STAT_FIELDS == {"crater_attack", "attack", "defense", "energy", "shield_regen",
                "item_delay", "popularity"}

\* Every key a record's dict holds after _parse: the schema's keys and the
\* keys of the other variant that setdefault adds.
ALL_FIELDS == Keys(NORMAL_MAP) \cup {"ex_number"}

\* The columns of the table.
COLUMNS == {"index", "type", "avatar_code", "image_number", "ex_number", "name",
            "show_in_shop", "enable_sale_gold", "enable_sale_cash",
            "sell_weekly", "price_weekly_gold", "price_weekly_cash",
            "sell_monthly", "price_monthly_gold", "price_monthly_cash",
            "sell_eternal", "price_eternal_gold", "price_eternal_cash",
            "attack", "defense", "energy", "shield_regen", "item_delay",
            "popularity"}

\* The values of the batch-edit combobox.
BATCH_FIELDS == {"show_in_shop", "enable_sale_gold", "enable_sale_cash",
                 "sell_weekly", "sell_monthly", "sell_eternal",
                 "price_weekly_gold", "price_weekly_cash", "price_monthly_gold",
                 "price_monthly_cash", "price_eternal_gold",
                 "price_eternal_cash", "attack", "defense", "energy",
                 "shield_regen", "item_delay", "popularity", "name"}

----------------------------------------------------------------------------
(* DATModel *)

\* The order of the two tests exchanged.
detect_ex_item_first(tot) ==
    LET payload == Max(0, tot - HEADER)
    IN  IF payload % EXITEM_SIZE = 0 THEN EXITEM_SIZE
        ELSE IF payload % NORMAL_SIZE = 0 THEN NORMAL_SIZE
        ELSE NORMAL_SIZE

detect_record_size(tot) ==
    LET payload == Max(0, tot - HEADER)
    IN  IF payload % NORMAL_SIZE = 0 THEN NORMAL_SIZE
        ELSE IF payload % EXITEM_SIZE = 0 THEN EXITEM_SIZE
        ELSE NORMAL_SIZE

\* The raw value kept as it is.
Unchanged(val) == val

\* 1 if val != 0 else 0
Truthy(val) == IF val # Zero THEN One ELSE Zero

\* One field of _parse: the IndexError of the explicit test and the
\* struct.error of a 4-byte read that runs past the buffer both leave None.
ParseField(b, oo, f) ==
    IF oo >= Len(b) THEN None
    ELSE IF f.t = "u32"
         THEN (IF oo + 4 <= Len(b) THEN read_u32_le(b, oo) ELSE None)
    ELSE IF f.t = "i32"
         THEN (IF oo + 4 <= Len(b) THEN read_i32_le(b, oo) ELSE None)
    ELSE IF f.t = "u8"
         THEN (IF f.k = "show_in_shop"
               THEN Truthy(read_u8(b, oo))
               ELSE read_u8(b, oo))
    ELSE StrV(read_str(b, oo, f.L))

ParseRecord(b, i, sz) ==
    LET off == HEADER + i * sz
        rtype == IF sz = NORMAL_SIZE THEN "Normal" ELSE "Ex-item"
        m == MapOf(rtype)
    IN  [index |-> i, type |-> rtype, raw_off |-> off,
         data |-> [k \in ALL_FIELDS |->
                     IF k \in Keys(m)
                     THEN ParseField(b, off + Spec_(m, k).o, Spec_(m, k))
                     ELSE None]]

\* A trailing partial record counted as a record.
parse_partial(b) ==
    LET sz == detect_record_size(Len(b))
        count == (Len(b) - HEADER + sz - 1) \div sz
    IN  [n \in 1..count |-> ParseRecord(b, n - 1, sz)]

\* _parse: floor division makes the count negative, and the list empty, for a
\* buffer shorter than the header.
parse(b) ==
    LET sz == detect_record_size(Len(b))
        count == (Len(b) - HEADER) \div sz
    IN  [n \in 1..count |-> ParseRecord(b, n - 1, sz)]

\* One field of save's loop: [ok, buf].  Any exception of the body is turned
\* into the RuntimeError that ends save.
SaveField(b, oo, f, val) ==
    IF oo >= Len(b) THEN [ok |-> FALSE, buf |-> b]
    ELSE IF f.t = "u32"
         THEN (IF CanPackU32(b, oo, val)
               THEN [ok |-> TRUE, buf |-> write_u32_le(b, oo, val)]
               ELSE [ok |-> FALSE, buf |-> b])
    ELSE IF f.t = "i32"
         THEN (IF CanPackI32(b, oo, val)
               THEN [ok |-> TRUE, buf |-> write_i32_le(b, oo, val)]
               ELSE [ok |-> FALSE, buf |-> b])
    ELSE IF f.t = "u8"
         THEN (IF f.k = "show_in_shop"
               THEN [ok |-> TRUE,
                     buf |-> write_u8(b, oo, Truthy(val))]
               ELSE IF val.t = "int"
                    THEN [ok |-> TRUE, buf |-> write_u8(b, oo, val)]
                    ELSE [ok |-> FALSE, buf |-> b])
    ELSE [ok |-> TRUE,
          buf |-> write_str(b, oo, f.L, IF val.t = "str" THEN val.s ELSE <<>>)]

\* The loops of save, flattened: step t is field j of record r, in the order
\* of the loops (all records of a list have one type, hence one map).  Steps
\* lo..hi run in order over buffer b and stop at the first that fails (the
\* range is halved to keep the evaluation shallow).
RECURSIVE SaveSteps(_, _, _, _)
SaveSteps(recs, b, lo, hi) ==
    IF lo > hi THEN [ok |-> TRUE, buf |-> b]
    ELSE IF lo = hi
    THEN LET m == MapOf(recs[1].type)
             rec == recs[((lo - 1) \div Len(m)) + 1]
             f == m[((lo - 1) % Len(m)) + 1]
         IN  SaveField(b, rec.raw_off + f.o, f, rec.data[f.k])
    ELSE LET mid == (lo + hi) \div 2
             left == SaveSteps(recs, b, lo, mid)
         IN  IF left.ok THEN SaveSteps(recs, left.buf, mid + 1, hi) ELSE left

Encode(recs, b) ==
    IF recs = <<>> THEN [ok |-> TRUE, buf |-> b]
    ELSE SaveSteps(recs, b, 1, Len(recs) * Len(MapOf(recs[1].type)))

----------------------------------------------------------------------------
(* Python int(text) and str.strip() *)

IsSpace(c) == c \in {9, 10, 11, 12, 13, 32}
IsDigit(c) == c >= 48 /\ c <= 57

RECURSIVE LStrip(_)
LStrip(txt) ==
    IF txt # <<>> /\ IsSpace(Head(txt)) THEN LStrip(Tail(txt)) ELSE txt

RECURSIVE RStrip(_)
RStrip(txt) ==
    IF txt # <<>> /\ IsSpace(txt[Len(txt)])
    THEN RStrip(SubSeq(txt, 1, Len(txt) - 1)) ELSE txt

Strip(txt) == RStrip(LStrip(txt))

\* v * 10 + d on the (hi, lo) pair.
MulAdd10(v, d) ==
    LET l == v.lo * 10 + d
    IN  IntV(v.hi * 10 + (l \div Half), l % Half)

Negate(v) == IF v.lo = 0 THEN IntV(-v.hi, 0) ELSE IntV(-v.hi - 1, Half - v.lo)

\* The digits of an integer literal: decimal digits, single underscores
\* allowed between two digits.
DigitsOk(d) ==
    /\ d # <<>>
    /\ \A i \in 1..Len(d) :
          \/ IsDigit(d[i])
          \/ /\ d[i] = 95
             /\ i > 1 /\ i < Len(d)
             /\ IsDigit(d[i - 1]) /\ IsDigit(d[i + 1])

RECURSIVE DigitsValue(_, _)
DigitsValue(d, acc) ==
    IF d = <<>> THEN acc
    ELSE IF Head(d) = 95 THEN DigitsValue(Tail(d), acc)
    ELSE DigitsValue(Tail(d), MulAdd10(acc, Head(d) - 48))

\* int(text): [ok, v]; ok = FALSE is the ValueError.
ParseInt(txt) ==
    LET t0 == Strip(txt)
        signed == t0 # <<>> /\ Head(t0) \in {43, 45}
        d == IF signed THEN Tail(t0) ELSE t0
    IN  IF DigitsOk(d)
        THEN [ok |-> TRUE,
              v |-> IF signed /\ Head(t0) = 45
                    THEN Negate(DigitsValue(d, Zero))
                    ELSE DigitsValue(d, Zero)]
        ELSE [ok |-> FALSE, v |-> Zero]

\* len(text.encode("utf-8")) of the handlers' length tests (strict encoding).
Utf8Len(txt) == Len(EncodeUtf8(txt))

----------------------------------------------------------------------------
(* The inputs of the model *)

Paths == {"in.dat", "out.dat"}

NoFile == [exists |-> FALSE, bytes |-> <<>>]
File(b) == [exists |-> TRUE, bytes |-> b]

\* Contents of a file: all zero, or a descending ramp without zero bytes in
\* which neighbouring offsets carry different bytes (its names are not UTF-8,
\* its flags are neither 0 nor 1, its stats are negative).
FileOf(T, f) == [i \in 1..T |-> IF f = "ramp" THEN 255 - ((i - 1) % 251) ELSE 0]

\* Files of at most n records: shorter than the header, the header alone,
\* less than one record, whole records of either variant, whole records
\* followed by a partial one.
FilesOf(n) ==
    {FileOf(T, "zero") : T \in {0, 3, HEADER, HEADER + n * EXITEM_SIZE}}
    \cup {FileOf(T, "ramp") :
            T \in {10, HEADER + n * NORMAL_SIZE, HEADER + n * NORMAL_SIZE + 10,
                   HEADER + n * EXITEM_SIZE}}

\* Texts typed into an entry: "0", " 1", "-1", and for the handlers alone
\* " 1", "-1", "Hero", ten "e-acute" (10 characters, 20 bytes).
Texts == {<<48>>, <<32, 49>>, <<45, 49>>}
EditTexts == {<<32, 49>>, <<45, 49>>, <<72, 101, 114, 111>>, Rep(233, 10)}

\* The columns and batch fields clicked on while files are saved and
\* reopened: one of each kind of field.
CellColumns == {"avatar_code", "name", "show_in_shop", "sell_weekly"}
BatchFields == {"show_in_shop", "popularity"}

Rows == 1..Len(records)

----------------------------------------------------------------------------
(* State *)

Out(op, status) == [op |-> op, status |-> status]

ParsedFile(p) == parse(disk[p].bytes)

\* DATModel.__init__ and the variables of the other specifications.
Fresh ==
    /\ path = ""
    /\ data = <<>>
    /\ records = <<>>
    /\ outcome = Out("init", "ok")
    /\ snap = <<>>
    /\ log = <<>>
    /\ nEdits = 0
    /\ clean = [p \in Paths |-> FALSE]
    /\ report = <<>>
    /\ total = 0
    /\ size = 0

\* The application starts empty, beside a file of one record at most.
Init ==
    /\ \E b \in FilesOf(1) :
          disk = [p \in Paths |-> IF p = "in.dat" THEN File(b) ELSE NoFile]
    /\ Fresh

----------------------------------------------------------------------------
(* DATModel.load, called by App.on_open *)

Load(p) ==
    /\ disk[p].exists
    /\ path' = p
    /\ data' = disk[p].bytes
    /\ records' = ParsedFile(p)
    /\ snap' = records'
    /\ log' = <<>>
    /\ clean' = [q \in Paths |-> FALSE]
    /\ outcome' = Out("load", "ok")
    /\ UNCHANGED <<disk, nEdits, report, total, size>>

OnOpen == \E p \in Paths : Load(p)

(* DATModel.save, called by App.on_save and App.on_save_as *)

\* The target exists and cannot be written or opened for appending: save
\* raises before it touches the buffer, and nothing changes.
SaveDenied(p) ==
    /\ disk[p].exists
    /\ UNCHANGED vars

\* The file opened for writing before the loop: a failed save leaves the
\* buffer as written so far in it.
SaveRunFileFirst(p) ==
    /\ \E res \in {Encode(records, data)} :
          /\ data' = res.buf
          /\ disk' = [disk EXCEPT ![p] = File(res.buf)]
          /\ IF res.ok
             THEN /\ clean' = [clean EXCEPT ![p] = TRUE]
                  /\ outcome' = Out("save", "ok")
             ELSE /\ UNCHANGED clean
                  /\ outcome' = Out("save", "encode")
    /\ UNCHANGED <<path, records, snap, log, nEdits, report, total, size>>

\* The re-encoding loop, then the write of the whole buffer (the file system
\* is taken to accept the write).  A field that cannot be encoded ends save
\* with the buffer as written so far and without any file access.
SaveRun(p) ==
    /\ \E res \in {Encode(records, data)} :
          /\ data' = res.buf
          /\ IF res.ok
             THEN /\ disk' = [disk EXCEPT ![p] = File(res.buf)]
                  /\ clean' = [clean EXCEPT ![p] = TRUE]
                  /\ outcome' = Out("save", "ok")
             ELSE /\ UNCHANGED <<disk, clean>>
                  /\ outcome' = Out("save", "encode")
    /\ UNCHANGED <<path, records, snap, log, nEdits, report, total, size>>

Save(p) == SaveDenied(p) \/ SaveRun(p)

\* on_save_as: to a path picked in the dialog.
OnSaveAs(picks) == \E p \in picks : Save(p)

\* on_save: to the path of the model, or on_save_as when there is none.
OnSave(picks) == IF path = "" THEN OnSaveAs(picks) ELSE Save(path)

----------------------------------------------------------------------------
(* App: the editing handlers *)

SetField(recs, rows, k, v) ==
    [r \in 1..Len(recs) |->
        IF r \in rows THEN [recs[r] EXCEPT !.data[k] = v] ELSE recs[r]]

Accept(op, rows, k, v) ==
    /\ records' = SetField(records, rows, k, v)
    /\ log' = Append(log, [rows |-> rows, field |-> k, val |-> v])
    /\ nEdits' = nEdits + 1
    /\ clean' = [q \in Paths |-> FALSE]
    /\ outcome' = Out(op, "accepted")
    /\ UNCHANGED <<disk, path, data, snap, report, total, size>>

Reject(op, why) ==
    /\ outcome' = Out(op, why)
    /\ nEdits' = nEdits + 1
    /\ UNCHANGED <<disk, path, data, records, snap, log, clean, report,
                   total, size>>

INT_COLUMNS == {"avatar_code", "image_number", "ex_number", "sell_weekly",
                "sell_monthly", "sell_eternal", "enable_sale_gold",
                "enable_sale_cash", "price_weekly_gold", "price_weekly_cash",
                "price_monthly_gold", "price_monthly_cash",
                "price_eternal_gold", "price_eternal_cash", "crater_attack",
                "attack", "defense", "energy", "shield_regen", "item_delay",
                "popularity"}

\* No field is refused for the variant of the record.
AlwaysAvailable(rec, k) == FALSE

\* The test both handlers make first: a stat field on an Ex-item record.
NotAvailable(rec, k) == k \in STAT_FIELDS /\ rec.type = "Ex-item"

\* finish() of on_double_click_cell for the cell (row r, column).
CellEdit(r, column, txt) ==
    LET newv == Strip(txt)
        n == ParseInt(newv)
    IN  IF NotAvailable(records[r], column)
        THEN Reject("cell", "not_available")
        ELSE IF column = "name"
        THEN IF Utf8Len(newv) > NAME_LEN
             THEN Reject("cell", "too_long")
             ELSE Accept("cell", {r}, column, StrV(newv))
        ELSE IF column = "show_in_shop"
        THEN IF n.ok /\ n.v \in {Zero, One}
             THEN Accept("cell", {r}, column, Truthy(n.v))
             ELSE Reject("cell", "not_bool")
        ELSE IF column = "description"
        THEN IF Utf8Len(newv) > DESC_LEN
             THEN Reject("cell", "too_long")
             ELSE Accept("cell", {r}, column, StrV(newv))
        ELSE IF column \in INT_COLUMNS
        THEN IF n.ok
             THEN Accept("cell", {r}, column, n.v)
             ELSE Reject("cell", "not_int")
        ELSE Reject("cell", "not_editable")

\* A double click on a cell of a column of the table other than index and
\* type, and the text entered.
OnDoubleClickCell(columns, texts) ==
    /\ nEdits < MaxEdits
    /\ \E r \in Rows, column \in columns, txt \in texts :
          /\ column \in COLUMNS \ {"index", "type"}
          /\ CellEdit(r, column, txt)

\* apply_batch over the selected rows.  A record the loop skips (continue)
\* stays as it is; a value the loop returns on is refused at the first
\* record it reaches, before any assignment, since the test reads the text
\* alone.
ApplyBatchTo(field, txt, sels) ==
    LET vtxt == Strip(txt)
        n == ParseInt(vtxt)
        hit == {r \in sels : ~NotAvailable(records[r], field)}
    IN  IF vtxt = <<>> THEN Reject("batch", "empty")
        ELSE IF hit = {} THEN Reject("batch", "not_available")
        ELSE IF field = "name"
        THEN IF Utf8Len(vtxt) > NAME_LEN
             THEN Reject("batch", "too_long")
             ELSE Accept("batch", hit, field, StrV(vtxt))
        ELSE IF field = "show_in_shop"
        THEN IF n.ok /\ n.v \in {Zero, One}
             THEN Accept("batch", hit, field, Truthy(n.v))
             ELSE Reject("batch", "not_bool")
        ELSE IF n.ok
             THEN Accept("batch", hit, field, n.v)
             ELSE Reject("batch", "not_int")

ApplyBatch(fields, texts) ==
    /\ nEdits < MaxEdits
    /\ \E field \in fields, txt \in texts, sels \in SUBSET Rows :
          /\ field \in BATCH_FIELDS
          /\ sels # {}
          /\ ApplyBatchTo(field, txt, sels)

\* on_change_image_number: all records of a file have one type, so one key
\* is assigned in every selected record.
ChangeImageNumber(txt, sels) ==
    LET n == ParseInt(txt)
        k == IF records[CHOOSE r \in sels : TRUE].type = "Normal"
             THEN "image_number" ELSE "ex_number"
    IN  IF n.ok THEN Accept("image", sels, k, n.v)
        ELSE Reject("image", "not_int")

OnChangeImageNumber(texts) ==
    /\ nEdits < MaxEdits
    /\ \E txt \in texts, sels \in SUBSET Rows :
          /\ sels # {}
          /\ ChangeImageNumber(txt, sels)

----------------------------------------------------------------------------
(* The application: files are opened, edited and saved *)

Next ==
    \/ OnOpen
    \/ OnSave({"in.dat"})
    \/ OnDoubleClickCell(CellColumns, Texts)
    \/ ApplyBatch(BatchFields, Texts)
    \/ OnChangeImageNumber(Texts)

Spec == Init /\ [][Next]_vars

FLAG_FIELDS == {"show_in_shop", "sell_weekly", "sell_monthly", "sell_eternal",
                "enable_sale_gold", "enable_sale_cash"}

\* Position in the buffer of the byte of flag k of record rec.
FlagPos(rec, k) ==
    LET m == IF rec.type = "Normal" THEN NORMAL_MAP ELSE EXITEM_MAP
    IN  rec.raw_off + m[CHOOSE j \in 1..Len(m) : m[j].k = k].o + 1

\* C2: after one accepted edit that sets a schema field f of one record r to
\* v, a save and a reload of the saved file, record r reads f = v and every
\* other field of every record is as it was loaded before the edit.
C2_EditSaveReload ==
    [][(/\ outcome'.op = "load"
        /\ path' = path
        /\ clean[path]
        /\ Len(log) = 1
        /\ Cardinality(log[1].rows) = 1
        /\ \A r \in log[1].rows :
              \E j \in 1..Len(MapOf(records[r].type)) :
                  MapOf(records[r].type)[j].k = log[1].field)
       => records' = [r \in 1..Len(snap) |->
                        IF r \in log[1].rows
                        THEN [snap[r] EXCEPT !.data[log[1].field] = log[1].val]
                        ELSE snap[r]]]_vars

\* C4: parse yields show_in_shop = 1 for a nonzero raw byte and 0 for a zero
\* one; a record's show_in_shop is never anything but 0 or 1; and the byte a
\* successful save leaves at the offset, in the buffer and in the file, is 0
\* or 1, 1 exactly when the value is not 0.
C4_ShowInShopCoercion ==
    \A r \in 1..Len(records) :
        LET pos == records[r].raw_off + (IF records[r].type = "Normal" THEN 35 ELSE 43) + 1
            v == records[r].data["show_in_shop"]
        IN  /\ v \in {IntV(0, 0), IntV(0, 1)}
            /\ outcome.op = "load" => v = (IF data[pos] = 0 THEN IntV(0, 0) ELSE IntV(0, 1))
            /\ (outcome.op = "save" /\ outcome.status = "ok") =>
                  /\ data[pos] = (IF v = IntV(0, 0) THEN 0 ELSE 1)
                  /\ disk[path].bytes[pos] = data[pos]

\* A record read from the ramp file, whose raw show_in_shop byte is 216, has
\* been saved after an accepted edit with the byte 1 in its place.
C4_Witness ==
    /\ outcome = [op |-> "save", status |-> "ok"]
    /\ Len(records) = 1
    /\ records[1].type = "Normal"
    /\ log # <<>>
    /\ data[1] = 255
    /\ FileOf(40, "ramp")[40] = 216
    /\ disk[path].bytes[40] = 1

\* C5: after parse each of the six flag fields of every record is 0 or 1,
\* and 1 whenever the raw byte is not zero.
C5_FlagsNormalizedOnRead ==
    outcome.op = "load" =>
        \A r \in 1..Len(records) : \A k \in FLAG_FIELDS :
            records[r].data[k] =
                (IF data[FlagPos(records[r], k)] = 0 THEN IntV(0, 0) ELSE IntV(0, 1))

\* Bytes a field of kind t and length L occupies.
FieldWidth(f) == IF f.t = "str" THEN f.L ELSE IF f.t = "u8" THEN 1 ELSE 4

\* The offsets within a record that no field of its map covers.
NORMAL_PADDING ==
    {o \in 0..(NORMAL_SIZE - 1) :
        \A j \in 1..Len(NORMAL_MAP) :
            o < NORMAL_MAP[j].o \/ o >= NORMAL_MAP[j].o + FieldWidth(NORMAL_MAP[j])}

EXITEM_PADDING ==
    {o \in 0..(EXITEM_SIZE - 1) :
        \A j \in 1..Len(EXITEM_MAP) :
            o < EXITEM_MAP[j].o \/ o >= EXITEM_MAP[j].o + FieldWidth(EXITEM_MAP[j])}

\* The positions 1 .. T of a buffer that lie in the header, behind the last
\* record of recs, or in the padding of a record.
Uncovered(T, recs) ==
    LET normal == recs # <<>> /\ recs[1].type = "Normal"
        sz == IF normal THEN 644 ELSE 684
        pad == IF normal THEN NORMAL_PADDING ELSE EXITEM_PADDING
    IN  {i \in 1..T : \/ i <= 4
                      \/ i > 4 + Len(recs) * sz
                      \/ ((i - 5) % sz) \in pad}

\* C11: once a file is loaded, a file changes only by a save that writes a
\* file as long as the file of the model's path (the loaded file, or what
\* earlier saves made of it) which agrees with that file in the 4 header
\* bytes, in the bytes behind the last whole record and in every byte of a
\* record that no field of its schema covers.
C11_SaveFrame ==
    [][\A p \in Paths :
          (path # "" /\ disk'[p] # disk[p]) =>
              /\ outcome' = [op |-> "save", status |-> "ok"]
              /\ Len(disk'[p].bytes) = Len(disk[path].bytes)
              /\ \A i \in Uncovered(Len(disk[path].bytes), records) :
                    disk'[p].bytes[i] = disk[path].bytes[i]]_vars

\* The file of one Normal record followed by 10 more bytes, whose bytes are
\* not zero, has been loaded, edited and saved with other bytes in its
\* fields.
C11_Witness ==
    /\ outcome = [op |-> "save", status |-> "ok"]
    /\ log # <<>>
    /\ Len(records) = 1
    /\ disk[path].bytes = data
    /\ Len(data) = HEADER + NORMAL_SIZE + 10
    /\ data # FileOf(HEADER + NORMAL_SIZE + 10, "ramp")
    /\ \A i \in 1..HEADER : data[i] = 256 - i

\* C14: the record list of a buffer of T bytes holds max(0, T - 4) div
\* recordSize records; record i has index i, the type of that size and
\* offset 4 + i * recordSize, and ends inside the buffer; every field of its
\* schema lies inside the buffer, so that save meets no offset out of range,
\* and after a load none of them is None.
C14_RecordsInsideBuffer ==
    LET T == Len(data)
        sz == detect_record_size(T)
    IN  /\ Len(records) = (IF T > 4 THEN T - 4 ELSE 0) \div sz
        /\ \A r \in 1..Len(records) :
              LET rec == records[r]
                  m == IF rec.type = "Normal" THEN NORMAL_MAP ELSE EXITEM_MAP
              IN  /\ rec.index = r - 1
                  /\ rec.type = (IF sz = 644 THEN "Normal" ELSE "Ex-item")
                  /\ rec.raw_off = 4 + (r - 1) * sz
                  /\ rec.raw_off + sz <= T
                  /\ \A j \in 1..Len(m) :
                        /\ rec.raw_off + m[j].o + FieldWidth(m[j]) <= T
                        /\ outcome.op = "load" => rec.data[m[j].k] # [t |-> "none"]

\* The file of one Normal record followed by 10 more bytes has been loaded
\* as one record.
C14_Witness ==
    /\ outcome.op = "load"
    /\ Len(data) = HEADER + NORMAL_SIZE + 10
    /\ Len(records) = 1

\* C15: after a load and any accepted edits every schema field of every
\* record holds a value save can encode (an int of 0 .. 2^32 - 1 in a u32
\* field, of -2^31 .. 2^31 - 1 in an i32 field, any int in a flag, text or
\* None in a string field), and no save ends in its re-encoding loop.
C15_AcceptedEditsSaveable ==
    /\ outcome # [op |-> "save", status |-> "encode"]
    /\ \A r \in 1..Len(records) :
          LET m == IF records[r].type = "Normal" THEN NORMAL_MAP ELSE EXITEM_MAP
          IN  \A j \in 1..Len(m) :
                 LET v == records[r].data[m[j].k]
                 IN  /\ m[j].t = "u32" => v.t = "int" /\ v.hi >= 0 /\ v.hi < 65536
                     /\ m[j].t = "i32" => v.t = "int" /\ v.hi >= -32768 /\ v.hi < 32768
                     /\ m[j].t = "u8" => v.t = "int"
                     /\ m[j].t = "str" => v.t \in {"str", "none"}

----------------------------------------------------------------------------
(* The editing handlers alone, on a document just loaded, over every column
   and batch field *)

\* Files of n records of either variant, and of none.
EditFilesOf(n) ==
    {FileOf(HEADER, "zero"), FileOf(HEADER + n * NORMAL_SIZE, "ramp"),
     FileOf(HEADER + n * EXITEM_SIZE, "zero"),
     FileOf(HEADER + n * EXITEM_SIZE, "ramp")}

InitEdit ==
    /\ \E b \in EditFilesOf(MaxRecords) :
          /\ disk = [p \in Paths |-> IF p = "in.dat" THEN File(b) ELSE NoFile]
          /\ data = b
          /\ records = parse(b)
          /\ snap = parse(b)
    /\ path = "in.dat"
    /\ outcome = Out("load", "ok")
    /\ log = <<>>
    /\ nEdits = 0
    /\ clean = [p \in Paths |-> FALSE]
    /\ report = <<>>
    /\ total = 0
    /\ size = 0

NextEdit ==
    \/ OnDoubleClickCell(COLUMNS, EditTexts)
    \/ ApplyBatch(BATCH_FIELDS, EditTexts)
    \/ OnChangeImageNumber(EditTexts)

SpecEdit == InitEdit /\ [][NextEdit]_vars

\* C9: on an Ex-item record an edit of one of the seven Normal-only stat
\* fields, by a cell edit or by a batch edit, changes no record and leaves
\* the field absent.
C9_ExItemStatRejected ==
    [][\A r \in 1..Len(records) :
          records[r].type = "Ex-item" =>
              \A k \in {"crater_attack", "attack", "defense", "energy",
                        "shield_regen", "item_delay", "popularity"} :
                  /\ records[r].data[k] = [t |-> "none"]
                  /\ records'[r].data[k] = [t |-> "none"]
                  /\ records' # records =>
                        \A txt \in EditTexts :
                            /\ ~CellEdit(r, k, txt)
                            /\ \A sels \in SUBSET (1..Len(records)) :
                                  r \in sels => ~ApplyBatchTo(k, txt, sels)]_vars

\* A stat cell of an Ex-item record has been edited and the edit refused.
C9_Witness ==
    /\ outcome = [op |-> "cell", status |-> "not_available"]
    /\ nEdits > 0
    /\ \E r \in 1..Len(records) :
          /\ records[r].type = "Ex-item"
          /\ records[r].data["attack"] = [t |-> "none"]

\* The text violates the shape of the field: too long for a name or a
\* description, no integer for an integer field, not 0 or 1 for a flag.
ViolatesShape(k, txt) ==
    LET n == ParseInt(Strip(txt))
    IN  IF k = "name" THEN Len(EncodeUtf8(Strip(txt))) > 19
        ELSE IF k = "description" THEN Len(EncodeUtf8(Strip(txt))) > 63
        ELSE IF k \in FLAG_FIELDS THEN ~(n.ok /\ n.v \in {IntV(0, 0), IntV(0, 1)})
        ELSE ~n.ok

\* C10: a cell edit or a batch edit whose text violates the shape of the
\* target field changes no record.
C10_ValidationBeforeMutation ==
    [][\A txt \in EditTexts :
          /\ \A k \in COLUMNS \ {"index", "type"} :
                ViolatesShape(k, txt) =>
                    \A r \in 1..Len(records) :
                        CellEdit(r, k, txt) => records' = records
          /\ \A k \in BATCH_FIELDS :
                ViolatesShape(k, txt) =>
                    \A sels \in SUBSET (1..Len(records)) \ {{}} :
                        ApplyBatchTo(k, txt, sels) => records' = records]_vars

\* C13: after a load and any edits every record holds the same 24 field
\* names, and the fields its variant does not define are None: ex_number on
\* a Normal record, image_number and the seven stat fields on an Ex-item
\* record.
C13_AbsentStayAbsent ==
    \A r \in 1..Len(records) :
        LET fields == records[r].data
        IN  /\ DOMAIN fields =
                  {"avatar_code", "image_number", "ex_number", "name",
                   "show_in_shop", "sell_weekly", "sell_monthly", "sell_eternal",
                   "price_weekly_gold", "price_weekly_cash", "price_monthly_gold",
                   "price_monthly_cash", "price_eternal_gold",
                   "price_eternal_cash", "enable_sale_gold", "enable_sale_cash",
                   "description", "crater_attack", "attack", "defense", "energy",
                   "shield_regen", "item_delay", "popularity"}
            /\ records[r].type = "Normal" => fields["ex_number"] = [t |-> "none"]
            /\ records[r].type = "Ex-item" =>
                  \A k \in {"image_number", "crater_attack", "attack", "defense",
                            "energy", "shield_regen", "item_delay", "popularity"} :
                      fields[k] = [t |-> "none"]

----------------------------------------------------------------------------
(* save and _parse alone, on record lists drawn from the values each kind of
   field can hold *)

U32Vals == <<Zero, One, IntV(1, 0), IntV(Half - 1, Half - 1), IntV(4660, 22136)>>

I32Vals == <<IntV(-32768, 0), IntV(-1, Half - 1), Zero, IntV(32767, Half - 1),
             IntV(0, 258)>>

FlagVals == <<Zero, One>>

\* Texts for a string field of L bytes: empty, "Hero", L different ASCII
\* characters, euro signs (3 bytes each) padded with "x" to L bytes, and a
\* 4-byte character followed by a space and an e-acute.
StrVals(L) ==
    << <<>>, <<72, 101, 114, 111>>, [i \in 1..L |-> 64 + i],
       Rep(8364, L \div 3) \o Rep(120, L % 3), <<128512, 32, 233>> >>

Pick(list, s) == list[(s % Len(list)) + 1]

ValueOf(f, s) ==
    IF f.t = "u32" THEN Pick(U32Vals, s)
    ELSE IF f.t = "i32" THEN Pick(I32Vals, s)
    ELSE IF f.t = "u8" THEN Pick(FlagVals, s)
    ELSE StrV(Pick(StrVals(f.L), s))

\* Record i of a list of one variant: field number j of the map holds value
\* number s + j of its kind, and the keys of the other variant hold None.
MakeRecord(i, rtype, s) ==
    LET m == MapOf(rtype)
    IN  [index |-> i, type |-> rtype, raw_off |-> HEADER + i * SizeOf(rtype),
         data |-> [k \in ALL_FIELDS |->
                     IF k \in Keys(m)
                     THEN ValueOf(Spec_(m, k),
                                  s + (CHOOSE j \in 1..Len(m) : m[j].k = k))
                     ELSE None]]

Seeds == 0..4

\* Values an accepted edit can leave in a record and the layout cannot hold:
\* -1 and 2^32 in a u32 field, 5 in a flag, a NUL inside a name, 2^31 in an
\* i32 field.
Spoils == {"neg", "big", "flag", "nul", "stat"}

Spoil(rec, how) ==
    IF how = "neg" THEN [rec EXCEPT !.data["avatar_code"] = IntV(-1, Half - 1)]
    ELSE IF how = "big"
         THEN [rec EXCEPT !.data["price_eternal_cash"] = IntV(Half, 0)]
    ELSE IF how = "flag" THEN [rec EXCEPT !.data["sell_monthly"] = Small(5)]
    ELSE IF how = "nul" THEN [rec EXCEPT !.data["name"] = StrV(<<72, 0, 105>>)]
    ELSE IF how = "stat" /\ rec.type = "Normal"
         THEN [rec EXCEPT !.data["popularity"] = IntV(32768, 0)]
    ELSE rec

Drawn(i, rtype) ==
    {MakeRecord(i, rtype, s) : s \in Seeds}
    \cup {Spoil(MakeRecord(i, rtype, 0), how) : how \in Spoils}

\* The model holds n records over a buffer of n whole records, read from
\* in.dat; out.dat does not exist.
InitCodec ==
    /\ \E rtype \in {"Normal", "Ex-item"}, n \in 0..MaxRecords :
          /\ data = FileOf(HEADER + n * SizeOf(rtype), "ramp")
          /\ records \in {recs \in [1..n -> UNION {Drawn(i, rtype) : i \in 0..(n - 1)}] :
                            \A r \in 1..n : recs[r].index = r - 1}
    /\ disk = [p \in Paths |-> IF p = "in.dat" THEN File(data) ELSE NoFile]
    /\ path = "in.dat"
    /\ snap = records
    /\ outcome = Out("init", "ok")
    /\ log = <<>>
    /\ nEdits = 0
    /\ clean = [p \in Paths |-> FALSE]
    /\ report = <<>>
    /\ total = 0
    /\ size = 0

NextCodec ==
    \/ OnSaveAs(Paths)
    \/ OnOpen

SpecCodec == InitCodec /\ [][NextCodec]_vars

\* What the layout can hold in a field: a u32 in 0 .. 2^32 - 1, an i32 in
\* -2^31 .. 2^31 - 1, a flag 0 or 1, a string without NUL (and without lone
\* surrogates, which have no UTF-8 encoding) whose encoding fits the field.
ValidValue(f, v) ==
    IF f.t = "u32" THEN v.t = "int" /\ v.hi >= 0 /\ v.hi <= 65535
    ELSE IF f.t = "i32" THEN v.t = "int" /\ v.hi >= -32768 /\ v.hi <= 32767
    ELSE IF f.t = "u8" THEN v.t = "int" /\ v.hi = 0 /\ v.lo \in {0, 1}
    ELSE /\ v.t = "str"
         /\ \A i \in 1..Len(v.s) : v.s[i] # 0 /\ ~(v.s[i] >= 55296 /\ v.s[i] <= 57343)
         /\ Len(EncodeUtf8(v.s)) <= f.L

ValidRecords(recs) ==
    \A r \in 1..Len(recs) :
        LET m == IF recs[r].type = "Normal" THEN NORMAL_MAP ELSE EXITEM_MAP
        IN  \A j \in 1..Len(m) : ValidValue(m[j], recs[r].data[m[j].k])

\* C1: for both variants and every record list whose schema fields hold
\* valid values, the file that save wrote from the records parses to records
\* equal to them field by field.
C1_RoundTrip ==
    \A p \in Paths :
        (clean[p] /\ ValidRecords(records)) => parse(disk[p].bytes) = records

\* A full list of valid Ex-item records whose first name is not plain ASCII
\* has been saved to a new file.
C1_Witness ==
    /\ clean["out.dat"]
    /\ ValidRecords(records)
    /\ Len(records) = MaxRecords
    /\ records[1].type = "Ex-item"
    /\ \E i \in 1..Len(records[1].data["name"].s) :
          records[1].data["name"].s[i] > 127

\* C8: a save whose re-encoding fails reports the error and leaves every file
\* as it was, absent files absent; a file changes only in a save in which
\* every field of every record was encoded, and then holds the whole buffer.
C8_FailedSaveWritesNothing ==
    [][/\ (outcome'.op = "save" /\ ~Encode(records, data).ok) =>
              /\ outcome'.status = "encode"
              /\ disk' = disk
       /\ disk' # disk =>
              /\ outcome'.op = "save" /\ outcome'.status = "ok"
              /\ Encode(records, data).ok
              /\ \E p \in Paths :
                    /\ disk'[p] = [exists |-> TRUE, bytes |-> Encode(records, data).buf]
                    /\ \A q \in Paths \ {p} : disk'[q] = disk[q]]_vars

\* A save has failed after it rewrote part of the buffer: the buffer differs
\* from the file it was read from, and the other file was not created.
C8_Witness ==
    /\ outcome = [op |-> "save", status |-> "encode"]
    /\ data # disk["in.dat"].bytes
    /\ ~disk["out.dat"].exists

----------------------------------------------------------------------------
(* Python float arithmetic of export_sql_item: int / int, float * int and
   math.floor on IEEE 754 doubles (53-bit significand, round half to even).
   A number is a sequence of bits, most significant first; a float is its
   sign, its 53 significand bits sig and its exponent e: sig * 2^e. *)

RECURSIVE NatBits(_)
NatBits(n) == IF n = 0 THEN <<>> ELSE Append(NatBits(n \div 2), n % 2)

\* The bits of a Python int v >= 0.
BitsOf(v) ==
    IF v.hi = 0 THEN NatBits(v.lo)
    ELSE NatBits(v.hi) \o Rep(0, 16 - Len(NatBits(v.lo))) \o NatBits(v.lo)

RECURSIVE BitsValue(_)
BitsValue(bs) ==
    IF bs = <<>> THEN 0
    ELSE 2 * BitsValue(SubSeq(bs, 1, Len(bs) - 1)) + bs[Len(bs)]

\* The Python int of a sequence of bits.
FromBits(bs) ==
    LET n == Len(bs)
    IN  IF n <= 16 THEN IntV(0, BitsValue(bs))
        ELSE IntV(BitsValue(SubSeq(bs, 1, n - 16)), BitsValue(SubSeq(bs, n - 15, n)))

\* bs + 1
IncBits(bs) ==
    LET zs == {i \in 1..Len(bs) : bs[i] = 0}
        z == CHOOSE i \in zs : \A j \in zs : j <= i
    IN  IF zs = {} THEN <<1>> \o Rep(0, Len(bs))
        ELSE SubSeq(bs, 1, z - 1) \o <<1>> \o Rep(0, Len(bs) - z)

StripZeros(bs) ==
    LET os == {i \in 1..Len(bs) : bs[i] = 1}
    IN  IF os = {} THEN <<>>
        ELSE SubSeq(bs, CHOOSE i \in os : \A j \in os : i <= j, Len(bs))

\* bs (first bit 1) rounded to 53 bits, half to even; sticky tells that
\* nonzero bits follow bs.  [sig, shift]: the value is sig * 2^shift.
Round53(bs, sticky) ==
    LET n == Len(bs)
        sig == SubSeq(bs, 1, 53)
        up == /\ bs[54] = 1
              /\ \/ sticky
                 \/ \E j \in 55..n : bs[j] = 1
                 \/ sig[53] = 1
        inc == IncBits(sig)
    IN  IF n <= 53 THEN [sig |-> bs \o Rep(0, 53 - n), shift |-> n - 53]
        ELSE IF ~up THEN [sig |-> sig, shift |-> n - 53]
        ELSE IF Len(inc) = 54 THEN [sig |-> SubSeq(inc, 1, 53), shift |-> n - 52]
        ELSE [sig |-> inc, shift |-> n - 53]

\* (r * 2^k) % d for r < d <= 128, twenty doublings at a time.
RECURSIVE ShiftMod(_, _, _)
ShiftMod(r, k, d) ==
    IF k <= 20 THEN (r * (2 ^ k)) % d
    ELSE ShiftMod((r * (2 ^ 20)) % d, k - 20, d)

\* The first n bits behind the point of r / d, for 0 <= r < d (long division,
\* by halves of n).
RECURSIVE FracBits(_, _, _)
FracBits(r, d, n) ==
    IF n = 0 THEN <<>>
    ELSE IF n = 1 THEN <<(2 * r) \div d>>
    ELSE FracBits(r, d, n \div 2)
         \o FracBits(ShiftMod(r, n \div 2, d), d, n - (n \div 2))

\* Quotient and remainder of an int v >= 0 by a small d > 0.
DivSmall(v, d) ==
    LET t == (v.hi % d) * Half + v.lo
    IN  [q |-> IntV(v.hi \div d, t \div d), rem |-> t % d]

\* bs * k + carry for a small k, 16 bits at a time.
RECURSIVE MulBits(_, _, _)
MulBits(bs, k, carry) ==
    LET n == Len(bs)
        low == BitsValue(SubSeq(bs, n - 15, n)) * k + carry
    IN  IF n <= 16 THEN NatBits(BitsValue(bs) * k + carry)
        ELSE MulBits(SubSeq(bs, 1, n - 16), k, low \div Half)
             \o Rep(0, 16 - Len(NatBits(low % Half))) \o NatBits(low % Half)

FloatZero == [sgn |-> 0, sig |-> <<>>, e |-> 0]

\* v / d for an int v and a small d > 0: the quotient correctly rounded.  The
\* division is carried far enough behind the point for 54 quotient bits
\* after its first one.
IntTrueDiv(v, d) ==
    LET mag == IF v.hi < 0 THEN Negate(v) ELSE v
        frac == 54 + Len(NatBits(d))
        res == DivSmall(mag, d)
        r == Round53(StripZeros(BitsOf(res.q) \o FracBits(res.rem, d, frac)),
                     ShiftMod(res.rem, frac, d) # 0)
    IN  IF v = Zero THEN FloatZero
        ELSE [sgn |-> IF v.hi < 0 THEN -1 ELSE 1, sig |-> r.sig, e |-> r.shift - frac]

\* x * k for a float x and a small int k > 0.
FloatMulSmall(x, k) ==
    LET r == Round53(MulBits(x.sig, k, 0), FALSE)
    IN  IF x.sgn = 0 THEN FloatZero
        ELSE [sgn |-> x.sgn, sig |-> r.sig, e |-> x.e + r.shift]

\* math.floor(x)
FloatFloor(x) ==
    LET whole == IF x.e >= 0 THEN x.sig \o Rep(0, x.e)
                 ELSE SubSeq(x.sig, 1, 53 + x.e)
        part == x.e < 0 /\ \E j \in Max(1, 54 + x.e)..53 : x.sig[j] = 1
    IN  IF x.sgn = 0 THEN Zero
        ELSE IF x.sgn > 0 THEN FromBits(whole)
        ELSE Negate(FromBits(IF part THEN IncBits(whole) ELSE whole))

----------------------------------------------------------------------------
(* DATModel.export_sql_menu and DATModel.export_sql_item, called by
   App.on_export_sql_menu and App.on_export_sql_item.  The text written is
   kept as the table it inserts into and, per INSERT line, the text between
   each pair of quotes. *)

\* The decimal digits of an int v >= 0, as character codes.
RECURSIVE DecDigits(_)
DecDigits(v) ==
    IF v.hi = 0 /\ v.lo < 10 THEN <<48 + v.lo>>
    ELSE DecDigits(DivSmall(v, 10).q) \o <<48 + DivSmall(v, 10).rem>>

\* What an f-string puts for {val}: str(val).
Format(val) ==
    IF val.t = "none" THEN <<78, 111, 110, 101>>
    ELSE IF val.t = "str" THEN val.s
    ELSE IF val.hi < 0 THEN <<45>> \o DecDigits(Negate(val))
    ELSE DecDigits(val)

\* The price emitted whenever the currency is enabled, whatever the duration.
GateEnableOnly(rec, enable, sell, price) ==
    IF rec.data[enable] = One THEN rec.data[price] ELSE Zero

\* price if enable == 1 and sell == 1 else 0
Gate(rec, enable, sell, price) ==
    IF rec.data[enable] = One /\ rec.data[sell] = One THEN rec.data[price]
    ELSE Zero

\* The records the loops do not skip.
Visible(recs) == SelectSeq(recs, LAMBDA rec : rec.data["show_in_shop"] = One)

MenuRow(rec) ==
    [No |-> Format(rec.data["avatar_code"]),
     Item1 |-> Format(rec.data["avatar_code"]),
     PriceByGoldForW |->
        Format(Gate(rec, "enable_sale_gold", "sell_weekly", "price_weekly_gold")),
     PriceByGoldForM |->
        Format(Gate(rec, "enable_sale_gold", "sell_monthly", "price_monthly_gold")),
     PriceByGoldForI |->
        Format(Gate(rec, "enable_sale_gold", "sell_eternal", "price_eternal_gold")),
     PriceByCashForW |->
        Format(Gate(rec, "enable_sale_cash", "sell_weekly", "price_weekly_cash")),
     PriceByCashForM |->
        Format(Gate(rec, "enable_sale_cash", "sell_monthly", "price_monthly_cash")),
     PriceByCashForI |->
        Format(Gate(rec, "enable_sale_cash", "sell_eternal", "price_eternal_cash")),
     Period1 |-> <<56, 54, 52, 48, 48>>,
     Volume1 |-> <<49>>]

export_sql_menu(recs) ==
    [table |-> "menu",
     rows |-> [n \in 1..Len(Visible(recs)) |-> MenuRow(Visible(recs)[n])]]

\* math.floor((price_eternal_gold / 100) * 60)
Preco(p) == FloatFloor(FloatMulSmall(IntTrueDiv(p, 100), 60))

ItemRow(rec) ==
    LET preco == Format(Preco(rec.data["price_eternal_gold"]))
    IN  [No |-> Format(rec.data["avatar_code"]),
         Refund_C |-> preco, Refund_G |-> preco,
         Refund_T |-> preco, Refund_E |-> preco]

\* The division raises TypeError for a price that is not a number.
ItemRaises(recs) ==
    \E n \in 1..Len(Visible(recs)) :
        Visible(recs)[n].data["price_eternal_gold"].t # "int"

export_sql_item(recs) ==
    [table |-> "item",
     rows |-> [n \in 1..Len(Visible(recs)) |-> ItemRow(Visible(recs)[n])]]

\* The answers of the save dialog: a name, or "" when it is cancelled.
TextPaths == {"", "shop.txt"}

\* on_export_sql_menu: nothing to export, the dialog cancelled, the file not
\* writable, or the text written.
OnExportSqlMenu(picks) ==
    IF records = <<>>
    THEN /\ outcome' = Out("export_menu", "empty")
         /\ UNCHANGED <<disk, path, data, records, snap, log, nEdits, clean,
                        report, total, size>>
    ELSE \E p \in picks, writable \in BOOLEAN :
            IF p = "" THEN UNCHANGED vars
            ELSE /\ outcome' = Out("export_menu", IF writable THEN "ok" ELSE "io")
                 /\ report' = IF writable THEN export_sql_menu(records) ELSE report
                 /\ UNCHANGED <<disk, path, data, records, snap, log, nEdits,
                                clean, total, size>>

\* on_export_sql_item, likewise; an exception of the arithmetic is reported
\* as the failure of the export.
OnExportSqlItem(picks) ==
    IF records = <<>>
    THEN /\ outcome' = Out("export_item", "empty")
         /\ UNCHANGED <<disk, path, data, records, snap, log, nEdits, clean,
                        report, total, size>>
    ELSE \E p \in picks, writable \in BOOLEAN :
            IF p = "" THEN UNCHANGED vars
            ELSE LET done == writable /\ ~ItemRaises(records)
                 IN  /\ outcome' = Out("export_item", IF done THEN "ok" ELSE "io")
                     /\ report' = IF done THEN export_sql_item(records) ELSE report
                     /\ UNCHANGED <<disk, path, data, records, snap, log, nEdits,
                                    clean, total, size>>

\* Eternal gold prices: 0, 1, 99, 100, 205, 410, 999, 1000, 65535, 65536,
\* 2^32 - 1.
Prices == <<Zero, One, Small(99), Small(100), Small(205), Small(410),
            Small(999), Small(1000), Small(65535), IntV(1, 0),
            IntV(Half - 1, Half - 1)>>

\* enable_sale_gold, enable_sale_cash, sell_weekly, sell_monthly,
\* sell_eternal as _parse reads them (any byte): all set, one currency off,
\* one or two durations off, bytes that are neither 0 nor 1.
Flags == << <<1, 1, 1, 1, 1>>, <<0, 1, 1, 1, 1>>, <<1, 0, 1, 1, 1>>,
            <<1, 1, 0, 1, 1>>, <<1, 1, 1, 0, 0>>, <<2, 1, 1, 1, 255>> >>

\* The shop fields of record i in a file: code i + 1, prices 500 .. 505
\* except the eternal gold price, which is p.
ShopFields(i, show, fl, p) ==
    << <<"avatar_code", Small(i + 1)>>, <<"show_in_shop", Small(show)>>,
       <<"enable_sale_gold", Small(fl[1])>>, <<"enable_sale_cash", Small(fl[2])>>,
       <<"sell_weekly", Small(fl[3])>>, <<"sell_monthly", Small(fl[4])>>,
       <<"sell_eternal", Small(fl[5])>>,
       <<"price_weekly_gold", Small(500)>>, <<"price_weekly_cash", Small(501)>>,
       <<"price_monthly_gold", Small(502)>>, <<"price_monthly_cash", Small(503)>>,
       <<"price_eternal_gold", p>>, <<"price_eternal_cash", Small(505)>> >>

\* The bytes b with the fields fs stored at their offsets of the map m.
RECURSIVE PutFields(_, _, _)
PutFields(b, m, fs) ==
    IF fs = <<>> THEN b
    ELSE LET f == Spec_(m, fs[1][1])
             v == fs[1][2]
         IN  PutFields(Put(b, f.o, IF f.t = "u8" THEN <<v.lo>> ELSE LE32(v)),
                       m, Tail(fs))

\* What is drawn for a record: the show_in_shop byte, the flags, the price.
\* Shown records (byte 1) with every price under the first flags and with
\* the prices 205 and 2^32 - 1 under the others, a record shown by the byte
\* 7, and two records that are not shown.
ShopCases ==
    {<<1, 1, p>> : p \in 1..Len(Prices)}
    \cup {<<1, f, p>> : f \in 2..Len(Flags), p \in {5, Len(Prices)}}
    \cup {<<7, 4, 8>>, <<0, 1, 1>>, <<0, 1, 5>>}

\* A file of the records drawn in cs: the header and, per record, zero bytes
\* with the shop fields stored.
RECURSIVE FileBytes(_, _)
FileBytes(rtype, cs) ==
    LET n == Len(cs)
        c == cs[n]
    IN  IF n = 0 THEN Rep(0, HEADER)
        ELSE FileBytes(rtype, SubSeq(cs, 1, n - 1))
             \o PutFields(Rep(0, SizeOf(rtype)), MapOf(rtype),
                          ShopFields(n - 1, c[1], Flags[c[2]], Prices[c[3]]))

\* A file of n records of one variant has been opened.
InitExport ==
    /\ \E rtype \in {"Normal", "Ex-item"}, n \in 0..MaxRecords :
          \E cs \in [1..n -> ShopCases] : data = FileBytes(rtype, cs)
    /\ disk = [p \in Paths |-> IF p = "in.dat" THEN File(data) ELSE NoFile]
    /\ path = "in.dat"
    /\ records = parse(data)
    /\ snap = records
    /\ outcome = Out("load", "ok")
    /\ log = <<>>
    /\ nEdits = 0
    /\ clean = [p \in Paths |-> FALSE]
    /\ report = <<>>
    /\ total = 0
    /\ size = 0

NextExport ==
    \/ OnExportSqlMenu(TextPaths)
    \/ OnExportSqlItem(TextPaths)

SpecExport == InitExport /\ [][NextExport]_vars

\* v * k on the (hi, lo) pair.
TimesSmall(v, k) ==
    LET l == v.lo * k
    IN  IntV(v.hi * k + (l \div Half), l % Half)

\* The sell flag, the two stored prices and the two emitted columns of each
\* duration.
Durations ==
    {<<"sell_weekly", "price_weekly_gold", "price_weekly_cash",
       "PriceByGoldForW", "PriceByCashForW">>,
     <<"sell_monthly", "price_monthly_gold", "price_monthly_cash",
       "PriceByGoldForM", "PriceByCashForM">>,
     <<"sell_eternal", "price_eternal_gold", "price_eternal_cash",
       "PriceByGoldForI", "PriceByCashForI">>}

\* C6: the menu report has one line per record with show_in_shop == 1, in
\* order, and for each duration its gold price is the stored gold price when
\* enable_sale_gold == 1 and sell_<duration> == 1 and 0 otherwise, its cash
\* price the stored cash price when enable_sale_cash == 1 and
\* sell_<duration> == 1 and 0 otherwise.
C6_MenuGating ==
    outcome = [op |-> "export_menu", status |-> "ok"] =>
        LET shown == {r \in 1..Len(records) : records[r].data["show_in_shop"] = One}
        IN  /\ report.table = "menu"
            /\ Len(report.rows) = Cardinality(shown)
            /\ \A r \in shown : \A d \in Durations :
                  LET fields == records[r].data
                      row == report.rows[Cardinality({q \in shown : q <= r})]
                      gold == fields["enable_sale_gold"] = One /\ fields[d[1]] = One
                      cash == fields["enable_sale_cash"] = One /\ fields[d[1]] = One
                  IN  /\ gold => row[d[4]] = Format(fields[d[2]])
                      /\ ~gold => row[d[4]] = <<48>>
                      /\ cash => row[d[5]] = Format(fields[d[3]])
                      /\ ~cash => row[d[5]] = <<48>>

\* A shown record with gold sales disabled, weekly sale on and a stored
\* weekly gold price of 500 has been exported: its weekly gold price is "0"
\* and its weekly cash price "501".
C6_Witness ==
    /\ outcome = [op |-> "export_menu", status |-> "ok"]
    /\ Len(records) = MaxRecords
    /\ records[1].data["show_in_shop"] = One
    /\ records[1].data["enable_sale_gold"] = Zero
    /\ records[1].data["sell_weekly"] = One
    /\ records[1].data["price_weekly_gold"] = Small(500)
    /\ report.rows[1].PriceByGoldForW = <<48>>
    /\ report.rows[1].PriceByCashForW = <<53, 48, 49>>

\* C7: the item report has one line per record with show_in_shop == 1, in
\* order, whose four refund columns all hold floor(p * 60 / 100), computed
\* exactly, for the record's eternal gold price p.
C7_ItemRefund ==
    outcome = [op |-> "export_item", status |-> "ok"] =>
        LET shown == {r \in 1..Len(records) : records[r].data["show_in_shop"] = One}
        IN  /\ report.table = "item"
            /\ Len(report.rows) = Cardinality(shown)
            /\ \A r \in shown :
                  LET p == records[r].data["price_eternal_gold"]
                      row == report.rows[Cardinality({q \in shown : q <= r})]
                      refund == Format(DivSmall(TimesSmall(p, 60), 100).q)
                  IN  /\ row.Refund_C = refund
                      /\ row.Refund_G = refund
                      /\ row.Refund_T = refund
                      /\ row.Refund_E = refund

----------------------------------------------------------------------------
(* write_str and read_str alone, on the name field of the first record of a
   buffer *)

\* Texts written: empty, "Hero", 19, 20 and 40 letters, 6 euro signs and "x"
\* (19 bytes), 7 euro signs (21 bytes), "a", 9 e-acute and "b" (20 bytes, the
\* 19th ending a character), 10 e-acute (20 bytes), 5 characters of 4 bytes,
\* 19 characters i-diaeresis (what a name of bytes EF reads as), a text with
\* a NUL in it, a lone surrogate.
NameTexts ==
    {<<>>, <<72, 101, 114, 111>>, [i \in 1..19 |-> 64 + i],
     [i \in 1..20 |-> 64 + i], [i \in 1..40 |-> 64 + (i % 26)],
     Rep(8364, 6) \o <<120>>, Rep(8364, 7),
     <<97>> \o Rep(233, 9) \o <<98>>, Rep(233, 10), Rep(128512, 5),
     Rep(239, 19), <<72, 0, 105>>, <<55296>>}

\* Offset of the name field of record 1.
NameOff == records[1].raw_off + Spec_(MapOf(records[1].type), "name").o

\* A buffer of one record of either variant, of zero or of nonzero bytes,
\* and a text to write as its name.
InitStr ==
    /\ \E b \in {FileOf(HEADER + NORMAL_SIZE, "ramp"),
                 FileOf(HEADER + NORMAL_SIZE, "zero"),
                 FileOf(HEADER + EXITEM_SIZE, "ramp"),
                 FileOf(HEADER + EXITEM_SIZE, "zero")},
          txt \in NameTexts :
          /\ data = b
          /\ records = SetField(parse(b), {1}, "name", StrV(txt))
    /\ disk = [p \in Paths |-> IF p = "in.dat" THEN File(data) ELSE NoFile]
    /\ path = "in.dat"
    /\ snap = <<>>
    /\ outcome = Out("init", "ok")
    /\ log = <<>>
    /\ nEdits = 0
    /\ clean = [p \in Paths |-> FALSE]
    /\ report = <<>>
    /\ total = 0
    /\ size = 0

\* write_str(self.data, oo, L, str(val or ""))
WriteName ==
    /\ outcome.op = "init"
    /\ data' = write_str(data, NameOff, NAME_LEN, records[1].data["name"].s)
    /\ outcome' = Out("write_str", "ok")
    /\ UNCHANGED <<disk, path, records, snap, log, nEdits, clean, report,
                   total, size>>

\* rec[k] = read_str(self.data, oo, L)
ReadName ==
    /\ outcome.op = "write_str"
    /\ report' = read_str(data, NameOff, NAME_LEN)
    /\ outcome' = Out("read_str", "ok")
    /\ UNCHANGED <<disk, path, data, records, snap, log, nEdits, clean,
                   total, size>>

NextStr == WriteName \/ ReadName

SpecStr == InitStr /\ [][NextStr]_vars

\* C12: writing a text into the 19-byte name field changes no byte outside
\* the 19 bytes of the field; a text whose UTF-8 encoding has at most 19
\* bytes is stored as its encoding followed by zero bytes and reads back as
\* itself; of a longer one the first 19 encoded bytes are stored and the
\* field reads back as a truncation of the text.
C12_NameTruncationPadding ==
    outcome.op = "read_str" =>
        LET text == records[1].data["name"].s
            enc == EncodeUtf8(text)
            old == disk["in.dat"].bytes
            field == SubSeq(data, NameOff + 1, NameOff + 19)
        IN  /\ Len(data) = Len(old)
            /\ \A i \in 1..Len(data) :
                  (i <= NameOff \/ i > NameOff + 19) => data[i] = old[i]
            /\ Len(enc) <= 19 =>
                  /\ field = enc \o [i \in 1..(19 - Len(enc)) |-> 0]
                  /\ report = text
            /\ Len(enc) > 19 =>
                  /\ field = SubSeq(enc, 1, 19)
                  /\ \E n \in 0..Len(text) : report = SubSeq(text, 1, n)

----------------------------------------------------------------------------
(* Size detection alone, over every length up to MaxTotal and the first
   length beyond the header whose payload both sizes divide *)

\* lcm(644, 684) = 4 * 161 * 171
TieTotal == HEADER + 4 * 161 * 171

InitDetect ==
    /\ total \in 0..MaxTotal \cup {TieTotal}
    /\ size = 0
    /\ disk = [p \in Paths |-> NoFile]
    /\ path = ""
    /\ data = <<>>
    /\ records = <<>>
    /\ outcome = Out("init", "ok")
    /\ snap = <<>>
    /\ log = <<>>
    /\ nEdits = 0
    /\ clean = [p \in Paths |-> FALSE]
    /\ report = <<>>

Detect ==
    /\ outcome.op = "init"
    /\ size' = detect_record_size(total)
    /\ outcome' = Out("detect", "ok")
    /\ UNCHANGED <<disk, path, data, records, snap, log, nEdits, clean, report,
                   total>>

NextDetect == Detect

SpecDetect == InitDetect /\ [][NextDetect]_vars

\* C3: for every total length T, with payload = max(0, T - 4), the detector
\* returns 644 when 644 divides the payload, otherwise 684 when 684 divides
\* it, otherwise 644; a payload both divide, 0 included, resolves to 644.
C3_SizeDetection ==
    outcome.op = "detect" =>
        LET payload == IF total > 4 THEN total - 4 ELSE 0
        IN  /\ (payload % 644 = 0 => size = 644)
            /\ (payload % 644 # 0 /\ payload % 684 = 0 => size = 684)
            /\ (payload % 644 # 0 /\ payload % 684 # 0 => size = 644)
            /\ (payload = 0 => size = 644)
            /\ (payload % 644 = 0 /\ payload % 684 = 0 => size = 644)

\* The length whose payload both sizes divide has been resolved to 644.
C3_Witness ==
    /\ outcome.op = "detect"
    /\ total = TieTotal
    /\ size = NORMAL_SIZE

====
